---- MODULE Spec2Model ----
(***************************************************************************)
(* Model of terminal_monitor.py: the daemon lifecycle (start, start        *)
(* --daemon, stop, status), the marker (pid) file, the shell configuration *)
(* hooks, the command log and the blast search.                            *)
(*                                                                         *)
(* Processes of the start family (foreground start, the start --daemon     *)
(* invocation and the two processes it forks) have pids and a position.    *)
(* stop is a two-step invocation (signal, then clean up); one stop runs at *)
(* a time.  status and blast only read and are single steps.  stdout holds *)
(* what the step just taken printed, with the exit status when that step   *)
(* ended its process.                                                      *)
(*                                                                         *)
(* Spec is the lifecycle with overlapping invocations; SeqSpec, NoCrashSpec *)
(* and LogSpec are the lifecycle with invocations one after the other;     *)
(* RaceSpec is start --daemon invocations that overlap.  SearchSpec,       *)
(* AppendSpec and HookSpec apply search_command_log, log_command and the   *)
(* two hook functions to inputs drawn from bounded sets.                   *)
(***************************************************************************)
EXTENDS Integers, Sequences, FiniteSets, TLC

\* ------------------------------------------------------------------ bounds
\* start invocations (start or start --daemon) in one behaviour
MaxStarts == 2
\* lines of the log in a behaviour of the lifecycle
MaxLog == 2
\* invocations that may be under way at the same time
MaxConcurrent == 2
\* lines of a log given to the search
MaxLines == 4
\* lines of a shell configuration file before any hook is installed
MaxRcInit == 2
\* lines of a shell configuration file
MaxRcLines == 6
\* largest value of blast -l
MaxLimit == 2
\* largest value of blast -B, -A and -C
MaxContext == 2

\* --------------------------------------------------------------- constants
\* os.path.exists(MONITOR_PID_FILE) is false
NoFile == -1
\* the marker exists with content "" (just opened with mode 'w')
EmptyContent == 0

\* a start --daemon invocation is three processes: itself and its two forks
Pids == 1..(3 * MaxStarts)
ConfigFiles == {"bashrc", "zshrc"}
\* commands the shell hook echoes into the log
RawCommands == {<<"a">>}
\* search terms given to blast
SearchTerms == {<<"a">>, <<"b">>}
\* patterns given to blast: the search terms, a wildcard, an unclosed group
Patterns == SearchTerms \cup {<<".">>, <<"(">>}
\* datetime.now().strftime("%Y-%m-%d %H:%M:%S"): a date, a space, a time
Timestamps == {<<"D", " ", "H">>, <<"D", " ", "I">>}
\* command texts given to log_command: plain, padded with white space,
\* holding a "]", holding a line break
CommandTexts == {<<"a">>, <<" ", "a", "\n">>, <<"a", "]">>, <<"a", "\n", "b">>}
\* limit=None: blast without -l
None == -1
\* the arguments of search_command_log
Query(search_term, case_sensitive, limit, regex, before, after) ==
    [search_term |-> search_term, case_sensitive |-> case_sensitive, limit |-> limit,
     regex |-> regex, before |-> before, after |-> after]
\* what main passes for a blast without options
DefaultQuery(search_term) == Query(search_term, TRUE, None, FALSE, 0, 0)
\* the query field of a message that is not printed by blast
NoQuery == Query(<<>>, TRUE, None, FALSE, 0, 0)
\* positions of a process that has ended: by returning or sys.exit, or by a
\* signal with its default disposition
Ended == {"exit0", "exit1", "signalled"}

VARIABLES
    proc,              \* pid -> process of the start family
    MONITOR_PID_FILE,  \* content of the marker file
    LOG_FILE,          \* [exists, lines] of the command log
    config_file,       \* "bashrc"/"zshrc" -> [exists, lines]
    stop_inv,          \* the stop invocation under way: [pc, pid]
    stdout             \* what the step just taken printed

vars == <<proc, MONITOR_PID_FILE, LOG_FILE, config_file, stop_inv, stdout>>

\* pid is the local variable of run_as_daemon: the pid read from the marker,
\* then the result of os.fork()
Unused == [cmd |-> "none", pc |-> "unused", parent |-> 0, pid |-> 0, fd |-> "closed"]

\* a message: the command and process that print it, what it reports, the
\* exit status when the process ends with it (-1: it goes on), the pid it
\* names and the matches it lists; for blast also the arguments it was given
\* and the log lines it printed, in the order printed
Out(cmd, by, report, exit, pid, matches) ==
    [cmd |-> cmd, by |-> by, report |-> report, exit |-> exit, pid |-> pid, matches |-> matches,
     query |-> NoQuery, printed |-> <<>>]
Silent == Out("none", 0, "none", -1, 0, <<>>)

\* ----------------------------------------------------------------- helpers
\* the process exists: it was created and has not ended
Exists(p) == proc[p].pc \notin (Ended \cup {"unused"})

\* a probe that succeeds for every pid that was ever given out
IsAlive_ever(pid) == pid \in Pids /\ proc[pid].cmd # "none"

\* os.kill(pid, 0) succeeds
IsAlive(pid) == pid \in Pids /\ Exists(pid)

HasFreePid == \E p \in Pids : proc[p].cmd = "none"
NewPid == CHOOSE p \in Pids : proc[p].cmd = "none" /\ \A q \in Pids : proc[q].cmd = "none" => p <= q

\* the CLI invocation a process descends from
Root(p) ==
    LET a == proc[p].parent IN
    IF a = 0 THEN p ELSE IF proc[a].parent = 0 THEN a ELSE proc[a].parent

\* os.remove(MONITOR_PID_FILE): descriptors still open on it write to an
\* unlinked file from now on
Unlink(pr) ==
    [q \in Pids |-> IF pr[q].fd = "open" THEN [pr[q] EXCEPT !.fd = "unlinked"] ELSE pr[q]]

\* ---------------------------------------------------------- shell hooks
\* line kinds of a shell configuration file:
\*   "user"    a line of the user's own
\*   "blank"   an empty line
\*   "fn"      function log_command() { ... >> "LOG_FILE"; }
\*   "trap"    trap log_command DEBUG
\*   "preexec" preexec() { echo "$1" >> "LOG_FILE"; }
bash_hook == <<"blank", "fn", "trap">>
zsh_hook == <<"blank", "preexec">>
Hook(f) == IF f = "bashrc" THEN bash_hook ELSE zsh_hook

\* a test that never finds the log file mentioned
MentionsLogFile_never(lines) == FALSE

\* log_file in content
MentionsLogFile(lines) == \E i \in 1..Len(lines) : lines[i] \in {"fn", "preexec"}

\* the filter of cleanup_hooks
KeepLine(l) == l \notin {"fn", "trap", "preexec"}

setup_terminal_hooks(cf) ==
    [f \in ConfigFiles |->
        IF cf[f].exists /\ ~MentionsLogFile(cf[f].lines)
        THEN [cf[f] EXCEPT !.lines = @ \o Hook(f)]
        ELSE cf[f]]

cleanup_hooks(cf) ==
    [f \in ConfigFiles |->
        IF cf[f].exists
        THEN [cf[f] EXCEPT !.lines = SelectSeq(@, KeepLine)]
        ELSE cf[f]]

HookInstalled == \E f \in ConfigFiles : \E i \in 1..Len(config_file[f].lines) : ~KeepLine(config_file[f].lines[i])

\* ------------------------------------------------------------ log search
\* the characters str.strip() removes: a space, a line break
Whitespace == {" ", "\n"}

RECURSIVE LStrip(_)
LStrip(s) == IF s # <<>> /\ Head(s) \in Whitespace THEN LStrip(Tail(s)) ELSE s

RECURSIVE RStrip(_)
RStrip(s) == IF s # <<>> /\ s[Len(s)] \in Whitespace THEN RStrip(SubSeq(s, 1, Len(s) - 1)) ELSE s

\* str.strip()
Strip(s) == RStrip(LStrip(s))

\* str.find(ch): 0-based index of the first occurrence, -1 when there is none
Find(s, ch) ==
    IF \E i \in 1..Len(s) : s[i] = ch
    THEN (CHOOSE i \in 1..Len(s) : s[i] = ch /\ \A j \in 1..(i - 1) : s[j] # ch) - 1
    ELSE -1

\* term in cmd
Contains(cmd, term) ==
    \E i \in 0..(Len(cmd) - Len(term)) : SubSeq(cmd, i + 1, i + Len(term)) = term

\* the command part of a stripped log line
ParseCommand(line) ==
    LET timestamp_end == Find(line, "]") IN
    IF timestamp_end > 0 THEN Strip(SubSeq(line, timestamp_end + 2, Len(line))) ELSE line

\* the timestamp part of a stripped log line
ParseTimestamp(line) ==
    LET timestamp_end == Find(line, "]") IN
    IF timestamp_end > 0 THEN SubSeq(line, 2, timestamp_end) ELSE <<>>

\* str.lower(), over an alphabet whose only upper-case letter is "A"
Lower(s) == [i \in 1..Len(s) |-> IF s[i] = "A" THEN "a" ELSE s[i]]

\* a compile that accepts every pattern
re_error_never(pattern) == FALSE

\* re.compile(pattern) raises re.error.  Patterns are made of letters, "."
\* and "(": a "(" is never closed.
re_error(pattern) == \E i \in 1..Len(pattern) : pattern[i] = "("

\* pattern.search(cmd) is not None, for a pattern of letters and "."
PatternSearch(pattern, cmd, ignorecase) ==
    \E i \in 0..(Len(cmd) - Len(pattern)) :
        \A k \in 1..Len(pattern) :
            \/ pattern[k] = "."
            \/ pattern[k] = cmd[i + k]
            \/ ignorecase /\ Lower(<<pattern[k]>>) = Lower(<<cmd[i + k]>>)

\* search_func(cmd) as prepared from the arguments q
search_func(q, cmd) ==
    IF q.regex THEN PatternSearch(q.search_term, cmd, ~q.case_sensitive)
    ELSE IF q.case_sensitive THEN Contains(cmd, q.search_term)
    ELSE Contains(Lower(cmd), Lower(q.search_term))

\* 0-based indices of the matching lines, in log order
RECURSIVE MatchesFrom(_, _, _)
MatchesFrom(lines, q, i) ==
    IF i > Len(lines) THEN <<>>
    ELSE LET line == Strip(lines[i]) IN
         (IF line # <<>> /\ search_func(q, ParseCommand(line)) THEN <<i - 1>> ELSE <<>>)
            \o MatchesFrom(lines, q, i + 1)

\* a limit that keeps the first matches
ApplyLimit_first(matches, limit) ==
    IF limit # None /\ limit # 0 /\ Len(matches) > limit
    THEN SubSeq(matches, 1, limit)
    ELSE matches

\* if limit and len(matches) > limit: matches = matches[-limit:]
ApplyLimit(matches, limit) ==
    IF limit # None /\ limit # 0 /\ Len(matches) > limit
    THEN SubSeq(matches, Len(matches) - limit + 1, Len(matches))
    ELSE matches

\* a printed log line: its 0-based index, whether it is printed as the match
\* or as context, and the match it is printed for
Printed(i, kind, match_index) == [i |-> i, kind |-> kind, of |-> match_index]

\* one context loop: the lines lo..hi that are not in lines_shown and are not
\* empty once stripped, in ascending order
ContextLines(lines, lo, hi, lines_shown, match_index) ==
    LET range == [j \in 1..(IF hi >= lo THEN hi - lo + 1 ELSE 0) |-> lo + j - 1]
        Show(i) == i \notin lines_shown /\ Strip(lines[i + 1]) # <<>>
        shown == SelectSeq(range, Show)
    IN  [j \in 1..Len(shown) |-> Printed(shown[j], "context", match_index)]

Max(a, b) == IF a >= b THEN a ELSE b
Min(a, b) == IF a <= b THEN a ELSE b

\* the display loop over the matches from the k-th on; printed is what the
\* earlier iterations printed
RECURSIVE RenderFrom(_, _, _, _, _, _)
RenderFrom(lines, matches, k, before, after, printed) ==
    IF k > Len(matches) THEN printed
    ELSE LET match_index == matches[k]
             lines_shown == {printed[j].i : j \in 1..Len(printed)}
             ctx_before == IF before > 0
                           THEN ContextLines(lines, Max(0, match_index - before), match_index - 1,
                                             lines_shown, match_index)
                           ELSE <<>>
             shown_before == lines_shown \cup {ctx_before[j].i : j \in 1..Len(ctx_before)}
                                         \cup {match_index}
             ctx_after == IF after > 0
                          THEN ContextLines(lines, match_index + 1,
                                            Min(Len(lines), match_index + after + 1) - 1,
                                            shown_before, match_index)
                          ELSE <<>>
         IN  RenderFrom(lines, matches, k + 1, before, after,
                        printed \o ctx_before \o <<Printed(match_index, "match", match_index)>>
                                \o ctx_after)

\* ------------------------------------------------------------------- Init
Init ==
    /\ proc = [p \in Pids |-> Unused]
    /\ MONITOR_PID_FILE = NoFile
    /\ LOG_FILE = [exists |-> FALSE, lines |-> <<>>]
    /\ config_file \in {cf \in [ConfigFiles -> {[exists |-> FALSE, lines |-> <<>>],
                                                [exists |-> TRUE, lines |-> <<"user">>]}] :
                           cf["bashrc"].exists}
    /\ stop_inv = [pc |-> "none", pid |-> 0]
    /\ stdout = Silent

\* -------------------------------------------------------------- CLI start
\* main: start / start --daemon creates the invocation's process
main_start(daemon) ==
    /\ Cardinality({p \in Pids : proc[p].cmd # "none" /\ proc[p].parent = 0}) < MaxStarts
    /\ proc' = [proc EXCEPT ![NewPid] =
                  [Unused EXCEPT !.cmd = IF daemon THEN "start_daemon" ELSE "start",
                                 !.pc = IF daemon THEN "check" ELSE "open"]]
    /\ stdout' = Silent
    /\ UNCHANGED <<MONITOR_PID_FILE, LOG_FILE, config_file, stop_inv>>

\* start_monitoring up to open(MONITOR_PID_FILE, 'w'): the file is truncated.
\* The detached process prints to the null device.
start_monitoring_open(p) ==
    /\ proc[p].pc = "open"
    /\ MONITOR_PID_FILE' = EmptyContent
    /\ proc' = [proc EXCEPT ![p].pc = "write", ![p].fd = "open"]
    /\ stdout' = IF proc[p].cmd = "start" THEN Out("start", p, "Starting", -1, p, <<>>) ELSE Silent
    /\ UNCHANGED <<LOG_FILE, config_file, stop_inv>>

\* a write that leaves a pid already written in place
start_monitoring_write_first(p) ==
    /\ proc[p].pc = "write"
    /\ MONITOR_PID_FILE' = IF proc[p].fd = "open" /\ MONITOR_PID_FILE = EmptyContent
                           THEN p ELSE MONITOR_PID_FILE
    /\ proc' = [proc EXCEPT ![p].pc = "hooks", ![p].fd = "closed"]
    /\ stdout' = Silent
    /\ UNCHANGED <<LOG_FILE, config_file, stop_inv>>

\* f.write(str(os.getpid())) and the close of the with block.  Pids are
\* written with the same number of digits: a write replaces the whole content.
start_monitoring_write(p) ==
    /\ proc[p].pc = "write"
    /\ MONITOR_PID_FILE' = IF proc[p].fd = "open" THEN p ELSE MONITOR_PID_FILE
    /\ proc' = [proc EXCEPT ![p].pc = "hooks", ![p].fd = "closed"]
    /\ stdout' = Silent
    /\ UNCHANGED <<LOG_FILE, config_file, stop_inv>>

\* setup_terminal_hooks(LOG_FILE), then the process enters the idle loop
start_monitoring_hooks(p) ==
    /\ proc[p].pc = "hooks"
    /\ config_file' = setup_terminal_hooks(config_file)
    /\ proc' = [proc EXCEPT ![p].pc = "idle"]
    /\ stdout' = IF proc[p].cmd = "start" /\ config_file' # config_file
                 THEN Out("start", p, "HookAdded", -1, 0, <<>>) ELSE Silent
    /\ UNCHANGED <<MONITOR_PID_FILE, LOG_FILE, stop_inv>>

\* except KeyboardInterrupt: the idle loop is ended by SIGINT
KeyboardInterrupt(p) ==
    /\ proc[p].pc = "idle"
    /\ config_file' = cleanup_hooks(config_file)
    /\ MONITOR_PID_FILE' = NoFile
    /\ proc' = [Unlink(proc) EXCEPT ![p].pc = "exit0"]
    /\ stdout' = IF proc[p].cmd = "start" THEN Out("start", p, "Stopping", 0, 0, <<>>) ELSE Silent
    /\ UNCHANGED <<LOG_FILE, stop_inv>>

\* ----------------------------------------------------- CLI start --daemon
\* run_as_daemon: the check of the marker
run_as_daemon_check(p) ==
    /\ proc[p].pc = "check"
    /\ IF MONITOR_PID_FILE = NoFile
       THEN /\ proc' = [proc EXCEPT ![p].pc = "fork1"]
            /\ stdout' = Silent
            /\ UNCHANGED MONITOR_PID_FILE
       ELSE IF MONITOR_PID_FILE = EmptyContent
       THEN \* int('') raises ValueError, which is not an OSError
            /\ proc' = [proc EXCEPT ![p].pc = "exit1"]
            /\ stdout' = Out("start_daemon", p, "ValueError", 1, 0, <<>>)
            /\ UNCHANGED MONITOR_PID_FILE
       ELSE IF IsAlive(MONITOR_PID_FILE)
       THEN /\ proc' = [proc EXCEPT ![p].pc = "exit0", ![p].pid = MONITOR_PID_FILE]
            /\ stdout' = Out("start_daemon", p, "AlreadyRunning", 0, MONITOR_PID_FILE, <<>>)
            /\ UNCHANGED MONITOR_PID_FILE
       ELSE \* except OSError: the stale marker is removed
            /\ MONITOR_PID_FILE' = NoFile
            /\ proc' = [Unlink(proc) EXCEPT ![p].pc = "fork1", ![p].pid = MONITOR_PID_FILE]
            /\ stdout' = Silent
    /\ UNCHANGED <<LOG_FILE, config_file, stop_inv>>

\* the first os.fork(): the parent prints the child's pid and exits 0
run_as_daemon_fork1(p) ==
    /\ proc[p].pc = "fork1"
    /\ \/ /\ HasFreePid
          /\ proc' = [proc EXCEPT ![p].pc = "exit0", ![p].pid = NewPid,
                                  ![NewPid] = [Unused EXCEPT !.cmd = "start_daemon",
                                                             !.pc = "fork2", !.parent = p]]
          /\ stdout' = Out("start_daemon", p, "Background", 0, NewPid, <<>>)
       \/ /\ proc' = [proc EXCEPT ![p].pc = "exit1"]
          /\ stdout' = Out("start_daemon", p, "ForkError", 1, 0, <<>>)
    /\ UNCHANGED <<MONITOR_PID_FILE, LOG_FILE, config_file, stop_inv>>

\* chdir, setsid, umask and the second os.fork(): the second parent exits 0
run_as_daemon_fork2(p) ==
    /\ proc[p].pc = "fork2"
    /\ \/ /\ HasFreePid
          /\ proc' = [proc EXCEPT ![p].pc = "exit0",
                                  ![NewPid] = [Unused EXCEPT !.cmd = "start_daemon",
                                                             !.pc = "open", !.parent = p]]
          /\ stdout' = Silent
       \/ /\ proc' = [proc EXCEPT ![p].pc = "exit1"]
          /\ stdout' = Out("start_daemon", p, "ForkError", 1, 0, <<>>)
    /\ UNCHANGED <<MONITOR_PID_FILE, LOG_FILE, config_file, stop_inv>>

\* --------------------------------------------------------------- CLI stop
StopIdle == stop_inv.pc # "cleanup"

\* an except branch that prints the error and leaves the marker in place
stop_monitor_except_kept(e, pid) ==
    /\ stdout' = Out("stop", 0, e, 0, pid, <<>>)
    /\ UNCHANGED <<proc, MONITOR_PID_FILE, stop_inv>>

\* the except branch of stop_monitor: print the error, remove the marker
stop_monitor_except(e, pid) ==
    /\ stdout' = Out("stop", 0, e, 0, pid, <<>>)
    /\ MONITOR_PID_FILE' = NoFile
    /\ proc' = Unlink(proc)
    /\ UNCHANGED stop_inv

\* stop_monitor up to os.kill(pid, SIGTERM)
stop_monitor_signal ==
    /\ StopIdle
    /\ IF MONITOR_PID_FILE = NoFile
       THEN /\ stdout' = Out("stop", 0, "NotRunning", 0, 0, <<>>)
            /\ UNCHANGED <<proc, MONITOR_PID_FILE, stop_inv>>
       ELSE IF MONITOR_PID_FILE = EmptyContent
       THEN \* int('') raises ValueError
            stop_monitor_except("ValueError", 0)
       ELSE IF IsAlive(MONITOR_PID_FILE)
       THEN \* SIGTERM has its default disposition: the target ends at once
            /\ stdout' = Out("stop", 0, "Sent", -1, MONITOR_PID_FILE, <<>>)
            /\ stop_inv' = [pc |-> "cleanup", pid |-> MONITOR_PID_FILE]
            /\ proc' = [proc EXCEPT ![MONITOR_PID_FILE].pc = "signalled",
                                    ![MONITOR_PID_FILE].fd = "closed"]
            /\ UNCHANGED MONITOR_PID_FILE
       ELSE stop_monitor_except("ProcessLookupError", MONITOR_PID_FILE)
    /\ UNCHANGED <<LOG_FILE, config_file>>

\* a clean-up that removes the log together with the marker
stop_monitor_cleanup_truncating ==
    /\ stop_inv.pc = "cleanup"
    /\ config_file' = cleanup_hooks(config_file)
    /\ MONITOR_PID_FILE' = NoFile
    /\ proc' = Unlink(proc)
    /\ stdout' = IF MONITOR_PID_FILE = NoFile
                 THEN Out("stop", 0, "FileNotFoundError", 0, stop_inv.pid, <<>>)
                 ELSE Out("stop", 0, "Stopped", 0, stop_inv.pid, <<>>)
    /\ stop_inv' = [pc |-> "none", pid |-> 0]
    /\ LOG_FILE' = [exists |-> FALSE, lines |-> <<>>]

\* cleanup_hooks() and os.remove(MONITOR_PID_FILE) after the signal
stop_monitor_cleanup ==
    /\ stop_inv.pc = "cleanup"
    /\ config_file' = cleanup_hooks(config_file)
    /\ MONITOR_PID_FILE' = NoFile
    /\ proc' = Unlink(proc)
    /\ stdout' = IF MONITOR_PID_FILE = NoFile
                 THEN Out("stop", 0, "FileNotFoundError", 0, stop_inv.pid, <<>>)
                 ELSE Out("stop", 0, "Stopped", 0, stop_inv.pid, <<>>)
    /\ stop_inv' = [pc |-> "none", pid |-> 0]
    /\ UNCHANGED LOG_FILE

\* ------------------------------------------------------------- CLI status
\* a status that removes the marker of a process it finds dead
show_status_reclaiming ==
    /\ stdout' =
          IF MONITOR_PID_FILE = NoFile THEN Out("status", 0, "NotRunning", 0, 0, <<>>)
          ELSE IF MONITOR_PID_FILE = EmptyContent THEN Out("status", 0, "ValueError", 0, 0, <<>>)
          ELSE IF IsAlive(MONITOR_PID_FILE)
          THEN Out("status", 0, "Running", 0, MONITOR_PID_FILE, <<>>)
          ELSE Out("status", 0, "Died", 0, MONITOR_PID_FILE, <<>>)
    /\ MONITOR_PID_FILE' = IF MONITOR_PID_FILE \in Pids /\ ~IsAlive(MONITOR_PID_FILE)
                           THEN NoFile ELSE MONITOR_PID_FILE
    /\ UNCHANGED <<proc, LOG_FILE, config_file, stop_inv>>

show_status ==
    /\ stdout' =
          IF MONITOR_PID_FILE = NoFile THEN Out("status", 0, "NotRunning", 0, 0, <<>>)
          ELSE IF MONITOR_PID_FILE = EmptyContent THEN Out("status", 0, "ValueError", 0, 0, <<>>)
          ELSE IF IsAlive(MONITOR_PID_FILE)
          THEN Out("status", 0, "Running", 0, MONITOR_PID_FILE, <<>>)
          ELSE Out("status", 0, "Died", 0, MONITOR_PID_FILE, <<>>)
    /\ UNCHANGED <<proc, MONITOR_PID_FILE, LOG_FILE, config_file, stop_inv>>

\* -------------------------------------------------------------- CLI blast
\* what blast prints: an Out message with the arguments q and the lines printed
BlastOut(report, exit, q, matches, printed) ==
    [Out("blast", 0, report, exit, 0, matches) EXCEPT !.query = q, !.printed = printed]

search_command_log(q) ==
    /\ stdout' =
          IF MONITOR_PID_FILE = NoFile
          THEN BlastOut("NotRunning", 1, q, <<>>, <<>>)
          ELSE IF ~LOG_FILE.exists
          THEN BlastOut("LogMissing", 1, q, <<>>, <<>>)
          ELSE IF q.regex /\ re_error(q.search_term)
          THEN \* except re.error: sys.exit(1) is not caught by except Exception
               BlastOut("InvalidPattern", 1, q, <<>>, <<>>)
          ELSE LET matches == ApplyLimit(MatchesFrom(LOG_FILE.lines, q, 1), q.limit) IN
               IF matches # <<>>
               THEN BlastOut("Found", 0, q, matches,
                             RenderFrom(LOG_FILE.lines, matches, 1, q.before, q.after, <<>>))
               ELSE BlastOut("NoMatches", 0, q, <<>>, <<>>)
    /\ UNCHANGED <<proc, MONITOR_PID_FILE, LOG_FILE, config_file, stop_inv>>

\* ------------------------------------------------------------ environment
\* the installed shell hook echoes an entered command into the log
ShellCommand(c) ==
    /\ HookInstalled
    /\ Len(LOG_FILE.lines) < MaxLog
    /\ LOG_FILE' = [exists |-> TRUE, lines |-> Append(LOG_FILE.lines, c)]
    /\ stdout' = Silent
    /\ UNCHANGED <<proc, MONITOR_PID_FILE, config_file, stop_inv>>

\* a process is killed from outside (SIGKILL): no handler runs
Crash(p) ==
    /\ Exists(p)
    /\ proc' = [proc EXCEPT ![p].pc = "signalled", ![p].fd = "closed"]
    /\ stdout' = Silent
    /\ UNCHANGED <<MONITOR_PID_FILE, LOG_FILE, config_file, stop_inv>>

\* ------------------------------------------------------------------- Next
\* a new CLI invocation
Launch ==
    \/ \E daemon \in BOOLEAN : main_start(daemon)
    \/ stop_monitor_signal
    \/ show_status
    \/ \E t \in SearchTerms : search_command_log(DefaultQuery(t))

\* a step of a start invocation under way
StartStep ==
    \/ \E p \in Pids : start_monitoring_open(p)
    \/ \E p \in Pids : start_monitoring_write(p)
    \/ \E p \in Pids : start_monitoring_hooks(p)
    \/ \E p \in Pids : run_as_daemon_check(p)
    \/ \E p \in Pids : run_as_daemon_fork1(p)
    \/ \E p \in Pids : run_as_daemon_fork2(p)

\* a step of an invocation under way
Step == StartStep \/ stop_monitor_cleanup

\* what the user does at a terminal besides launching a command
User ==
    \/ \E p \in Pids : KeyboardInterrupt(p)
    \/ \E c \in RawCommands : ShellCommand(c)

Crashes == \E p \in Pids : Crash(p)

\* the processes of the start family that have not reached the idle loop
\* nor ended, and the stop under way
InFlight ==
    Cardinality({p \in Pids : proc[p].pc \notin ({"unused", "idle"} \cup Ended)})
        + (IF stop_inv.pc = "cleanup" THEN 1 ELSE 0)

Next == (InFlight < MaxConcurrent /\ Launch) \/ Step \/ User \/ Crashes

Spec == Init /\ [][Next]_vars

\* no invocation is between its first and its last step
Quiescent == InFlight = 0

\* invocations do not overlap: the user acts when none is under way
SeqNext == (Quiescent /\ (Launch \/ User)) \/ Step \/ Crashes

SeqSpec == Init /\ [][SeqNext]_vars

\* invocations do not overlap and no process crashes
NoCrashNext == (Quiescent /\ (Launch \/ User)) \/ Step

NoCrashSpec == Init /\ [][NoCrashNext]_vars

\* start --daemon invocations that overlap, and nothing else
RaceNext == (InFlight < MaxConcurrent /\ main_start(TRUE)) \/ StartStep

RaceSpec == Init /\ [][RaceNext]_vars


\* ----------------------------------------------------- the hooks alone
\* all sequences over S of length at most n
SeqsUpTo(S, n) == UNION {[1..k -> S] : k \in 0..n}

\* the kinds of line of a shell configuration file
RcLines == {"user", "blank", "fn", "trap", "preexec"}

\* no monitor runs and the shell configuration files hold any lines
HookInit ==
    /\ proc = [p \in Pids |-> Unused]
    /\ MONITOR_PID_FILE = NoFile
    /\ LOG_FILE = [exists |-> FALSE, lines |-> <<>>]
    /\ config_file \in [ConfigFiles -> {[exists |-> FALSE, lines |-> <<>>]}
                                        \cup {[exists |-> TRUE, lines |-> l] :
                                                 l \in SeqsUpTo(RcLines, MaxRcInit)}]
    /\ stop_inv = [pc |-> "none", pid |-> 0]
    /\ stdout = Silent

\* a call of setup_terminal_hooks(LOG_FILE)
HookInstall ==
    /\ \A f \in ConfigFiles : Len(setup_terminal_hooks(config_file)[f].lines) <= MaxRcLines
    /\ config_file' = setup_terminal_hooks(config_file)
    /\ stdout' = Out("setup_terminal_hooks", 0,
                     IF config_file' # config_file THEN "HookAdded" ELSE "none", -1, 0, <<>>)
    /\ UNCHANGED <<proc, MONITOR_PID_FILE, LOG_FILE, stop_inv>>

\* a call of cleanup_hooks()
HookRemove ==
    /\ config_file' = cleanup_hooks(config_file)
    /\ stdout' = Out("cleanup_hooks", 0, "none", -1, 0, <<>>)
    /\ UNCHANGED <<proc, MONITOR_PID_FILE, LOG_FILE, stop_inv>>

HookNext == HookInstall \/ HookRemove

HookSpec == HookInit /\ [][HookNext]_vars

\* ---------------------------------------------------- the search alone
\* f"[{timestamp}] {command.strip()}", the line log_command writes
FormatRecord(timestamp, command) == <<"[">> \o timestamp \o <<"]", " ">> \o Strip(command)

\* the lines a reader finds for a text that was written followed by "\n"
RECURSIVE SplitLines(_)
SplitLines(text) ==
    LET k == Find(text, "\n") IN
    IF k < 0 THEN <<text>>
    ELSE <<SubSeq(text, 1, k)>> \o SplitLines(SubSeq(text, k + 2, Len(text)))

\* log_command(command), called at the time timestamp
log_command(command, timestamp) ==
    /\ LOG_FILE' = [exists |-> TRUE,
                    lines |-> LOG_FILE.lines \o SplitLines(FormatRecord(timestamp, command))]
    /\ stdout' = Silent
    /\ UNCHANGED <<proc, MONITOR_PID_FILE, config_file, stop_inv>>

\* the records a reader parses from the lines: one for each line that is not
\* empty once stripped
RECURSIVE LoadFrom(_, _)
LoadFrom(lines, i) ==
    IF i > Len(lines) THEN <<>>
    ELSE LET line == Strip(lines[i]) IN
         (IF line # <<>>
          THEN <<[timestamp |-> ParseTimestamp(line), command |-> ParseCommand(line)]>>
          ELSE <<>>) \o LoadFrom(lines, i + 1)

\* commands are appended to a log that starts empty
AppendNext ==
    \E c \in CommandTexts, t \in Timestamps :
        Len(LOG_FILE.lines) < MaxLines /\ log_command(c, t)

AppendSpec == Init /\ [][AppendNext]_vars

\* a caller of log_command appends a command
Appends ==
    \E c \in RawCommands, t \in Timestamps :
        Len(LOG_FILE.lines) < MaxLog /\ log_command(c, t)

\* non-overlapping invocations, crashes, and appends by log_command
LogNext == (Quiescent /\ (Launch \/ User \/ Appends)) \/ Step \/ Crashes

LogSpec == Init /\ [][LogNext]_vars

\* lines found in a log: a record written by log_command, a command echoed
\* by the shell hook, an empty line
SearchLines == {FormatRecord(<<"D", " ", "H">>, <<"a">>), <<"A", "b">>, <<>>}

\* the arguments main can pass to search_command_log
SearchQueries ==
    {Query(t, cs, l, r, b, a) : t \in Patterns, cs \in BOOLEAN, l \in {None} \cup (0..MaxLimit),
                                r \in BOOLEAN, b \in 0..MaxContext, a \in 0..MaxContext}

\* a foreground monitor is running and the log holds any lines
SearchInit ==
    /\ proc = [p \in Pids |-> IF p = 1 THEN [Unused EXCEPT !.cmd = "start", !.pc = "idle"]
                               ELSE Unused]
    /\ MONITOR_PID_FILE = 1
    /\ LOG_FILE \in {[exists |-> TRUE, lines |-> l] : l \in SeqsUpTo(SearchLines, MaxLines)}
    /\ config_file = setup_terminal_hooks([f \in ConfigFiles |->
                                              [exists |-> TRUE, lines |-> <<"user">>]])
    /\ stop_inv = [pc |-> "none", pid |-> 0]
    /\ stdout = Silent

\* one blast is run on the log
SearchNext == stdout = Silent /\ \E q \in SearchQueries : search_command_log(q)

SearchSpec == SearchInit /\ [][SearchNext]_vars

TypeOK ==
    /\ MONITOR_PID_FILE \in {NoFile, EmptyContent} \cup Pids
    /\ \A p \in Pids : proc[p].pc \in {"unused", "open", "write", "hooks", "idle", "check",
                                       "fork1", "fork2"} \cup Ended

\* ================================================================ claims
\* the processes in the idle loop of start_monitoring
Monitors == {p \in Pids : proc[p].pc = "idle"}

\* the marker records a pid whose process does not exist
MarkerStale == MONITOR_PID_FILE \in Pids /\ ~Exists(MONITOR_PID_FILE)

\* the marker records a pid whose process exists
MarkerLive == MONITOR_PID_FILE \in Pids /\ Exists(MONITOR_PID_FILE)

\* a stop invocation has just returned
StopReturned == stdout.cmd = "stop" /\ stdout.exit # -1

\* C1: with non-overlapping invocations and no crash, at most one process is
\* in the idle loop at any point, and once the invocation is over the marker
\* records the pid of that process.
C1_AtMostOneDaemon ==
    /\ Cardinality(Monitors) <= 1
    /\ Quiescent => \A p \in Monitors : MONITOR_PID_FILE = p

\* C2: a start that finds the marker recording a dead pid does not report
\* AlreadyRunning (the report is made only for a pid that exists); it goes on
\* to the fork only with the stale marker removed; and the process it starts
\* has its own pid in the marker once it has written it.
C2_StaleMarkerReclaimed ==
    /\ stdout.report = "AlreadyRunning" => (stdout.pid \in Pids /\ Exists(stdout.pid))
    /\ \A p \in Pids : proc[p].pc = "fork1" => MONITOR_PID_FILE = NoFile
    /\ \A p \in Pids : proc[p].pc = "hooks" => MONITOR_PID_FILE = p

\* a start --daemon has read a stale pid from the marker, removed the marker
\* and gone on to the fork
C2_Witness ==
    \E p \in Pids : /\ proc[p].pc = "fork1"
                    /\ proc[p].pid \in Pids
                    /\ ~Exists(proc[p].pid)
                    /\ MONITOR_PID_FILE = NoFile

\* C3: when a stop invocation has returned, whatever it found, the marker
\* file does not exist and stop ended normally (exit status 0, one of its
\* own messages printed).
C3_StopEndsAbsent ==
    StopReturned =>
        /\ MONITOR_PID_FILE = NoFile
        /\ stdout.exit = 0
        /\ stdout.report \in {"NotRunning", "Stopped", "ValueError", "ProcessLookupError",
                              "FileNotFoundError"}

\* a stop has returned after finding a marker with unparsable content
C3_Witness == StopReturned /\ stdout.report = "ValueError" /\ MONITOR_PID_FILE = NoFile

\* C4: when the signal of stop has ended the idle wait of the daemon, the
\* daemon itself has removed the marker and the hook before it ended.
C4_DaemonCleansUpOnSignal ==
    stdout.report = "Sent" =>
        /\ ~Exists(stdout.pid)
        /\ MONITOR_PID_FILE # stdout.pid
        /\ ~HookInstalled

\* C5: a stop that found a marker leaves no shell hook installed when it
\* returns, on the failure paths too.
C5_StopRemovesHook ==
    (StopReturned /\ stdout.report # "NotRunning") => ~HookInstalled

\* C6: a status invocation leaves the marker, the log and the shell
\* configuration unchanged and reports Absent exactly when there is no marker,
\* Running(pid) exactly when the marker's pid exists, Stale exactly when it
\* does not.
C6_StatusReadOnly ==
    [][stdout'.cmd = "status" =>
          /\ MONITOR_PID_FILE' = MONITOR_PID_FILE
          /\ LOG_FILE' = LOG_FILE
          /\ config_file' = config_file
          /\ (stdout'.report = "NotRunning") <=> (MONITOR_PID_FILE = NoFile)
          /\ (stdout'.report = "Running") <=> MarkerLive
          /\ (stdout'.report = "Running") => (stdout'.pid = MONITOR_PID_FILE)
          /\ (stdout'.report = "Died") <=> MarkerStale]_vars

\* a status has reported a dead process and the marker still records it
C6_Witness ==
    /\ stdout.cmd = "status"
    /\ stdout.report = "Died"
    /\ MONITOR_PID_FILE = stdout.pid
    /\ MarkerStale

\* C7 as stated: when status or stop has detected that the recorded process
\* no longer exists, the marker is removed by the time the invocation returns.
C7_StatusOrStopReclaims ==
    ((stdout.cmd = "status" /\ stdout.report = "Died")
        \/ (stdout.cmd = "stop" /\ stdout.report = "ProcessLookupError"))
    => MONITOR_PID_FILE = NoFile

\* C7 amended: a stop that detects that the recorded process no longer exists
\* has removed the marker when it returns; a status that detects it leaves
\* the marker in place.
C7_StopReclaims ==
    /\ (stdout.cmd = "stop" /\ stdout.report = "ProcessLookupError") => MONITOR_PID_FILE = NoFile
    /\ (stdout.cmd = "status" /\ stdout.report = "Died") => MONITOR_PID_FILE = stdout.pid

\* a stop has returned after finding the recorded process gone
C7_Witness ==
    /\ StopReturned
    /\ stdout.report = "ProcessLookupError"
    /\ ~Exists(stdout.pid)
    /\ MONITOR_PID_FILE = NoFile

\* C8: an invocation that ends in a guard error (start: AlreadyRunning; stop
\* or blast: NotRunning) exits with a non-zero status and leaves the marker
\* unchanged.
C8_GuardErrorsExitNonZero ==
    [][(stdout'.report = "AlreadyRunning"
          \/ (stdout'.cmd \in {"stop", "blast"} /\ stdout'.report = "NotRunning"))
       => (stdout'.exit > 0 /\ MONITOR_PID_FILE' = MONITOR_PID_FILE)]_vars

\* C9: a blast that finds no live daemon (no marker, or a marker whose pid
\* does not exist) reports NotRunning and prints no search result.
C9_BlastRequiresLiveDaemon ==
    (stdout.cmd = "blast" /\ (MONITOR_PID_FILE = NoFile \/ MarkerStale))
    => (stdout.report = "NotRunning" /\ stdout.matches = <<>>)

\* C10: when a fork of start --daemon has failed, the start invocation has a
\* non-zero exit status, there is no marker and no process of the invocation
\* is in the idle loop.
C10_DetachFailureLeavesNoMarker ==
    stdout.report = "ForkError" =>
        /\ proc[Root(stdout.by)].pc = "exit1"
        /\ MONITOR_PID_FILE = NoFile
        /\ \A p \in Monitors : Root(p) # Root(stdout.by)

\* C11: when a process started by start --daemon is in the idle loop and the
\* marker records its pid, the pid that the foreground invocation printed
\* (the result of its os.fork()) is that pid.
C11_ReportedPidIsDaemonPid ==
    \A g \in Monitors :
        (proc[g].cmd = "start_daemon" /\ MONITOR_PID_FILE = g) => proc[Root(g)].pid = g

\* ------------------------------------------------------- claims on blast
\* a blast has printed matches
BlastFound == stdout.cmd = "blast" /\ stdout.report = "Found"

\* the 0-based indices of the lines blast printed, in the order printed
PrintedIndices == [j \in 1..Len(stdout.printed) |-> stdout.printed[j].i]

\* C12: the log lines a blast prints, matches and context together, are
\* printed in strictly increasing order of their log index, hence each at
\* most once.
C12_RenderOnceInOrder ==
    BlastFound =>
        \A j, k \in 1..Len(PrintedIndices) : j < k => PrintedIndices[j] < PrintedIndices[k]

\* the 0-based line indices of the records of the log (the lines that are
\* not empty), in order
RECURSIVE RecordsFrom(_, _)
RecordsFrom(lines, i) ==
    IF i > Len(lines) THEN <<>>
    ELSE (IF Strip(lines[i]) # <<>> THEN <<i - 1>> ELSE <<>>) \o RecordsFrom(lines, i + 1)

Records == RecordsFrom(LOG_FILE.lines, 1)

\* the 0-based position among the records of the record at line index i
RecordPosition(i) == (CHOOSE r \in 1..Len(Records) : Records[r] = i) - 1

\* the line indices printed as context of the k-th surviving match
ContextOf(k) ==
    {stdout.printed[j].i : j \in {n \in 1..Len(stdout.printed) :
                                     /\ stdout.printed[n].of = stdout.matches[k]
                                     /\ stdout.printed[n].kind = "context"}}

\* the line indices printed for the matches before the k-th
ShownBefore(k) ==
    {stdout.printed[j].i : j \in {n \in 1..Len(stdout.printed) :
                                     stdout.printed[n].of < stdout.matches[k]}}

\* the line indices of the records in the context window of the k-th match,
\* the window being counted in record positions
WindowOf(k) ==
    LET m == RecordPosition(stdout.matches[k])
        len == Len(Records)
        before == stdout.query.before
        after == stdout.query.after
    IN  {Records[r + 1] : r \in {x \in 0..(len - 1) :
                                    \/ Max(0, m - before) <= x /\ x < m
                                    \/ m < x /\ x <= Min(len - 1, m + after)}}

\* C13: for every surviving match, the records printed as its context are
\* exactly the records in its window of before records ahead of it and after
\* records behind it, clamped to the log, that were not shown already.
C13_ContextWindowOverRecords ==
    BlastFound =>
        \A k \in 1..Len(stdout.matches) : ContextOf(k) = WindowOf(k) \ ShownBefore(k)

\* all the matches of the query in the log, before the limit is applied
AllMatches == MatchesFrom(LOG_FILE.lines, stdout.query, 1)

\* the last n elements of a sequence
LastN(s, n) == [j \in 1..n |-> s[Len(s) - n + j]]

\* a blast has searched the log with a limit of at least 1
LimitedSearch ==
    /\ stdout.cmd = "blast"
    /\ stdout.report \in {"Found", "NoMatches"}
    /\ stdout.query.limit >= 1

\* C14: a search with a limit L >= 1 results in the last L matches when more
\* than L lines match, in all matches otherwise, in ascending log order.
C14_LimitKeepsLastMatches ==
    LimitedSearch =>
        /\ stdout.matches = IF Len(AllMatches) > stdout.query.limit
                            THEN LastN(AllMatches, stdout.query.limit)
                            ELSE AllMatches
        /\ \A j, k \in 1..Len(stdout.matches) : j < k => stdout.matches[j] < stdout.matches[k]

\* a search with a limit has dropped the first matches and kept the last
C14_Witness ==
    /\ LimitedSearch
    /\ Len(AllMatches) > stdout.query.limit
    /\ stdout.matches = LastN(AllMatches, stdout.query.limit)
    /\ stdout.matches # SubSeq(AllMatches, 1, stdout.query.limit)

\* C20: a blast given a limit L >= 0 reports at most L matches; with L = 0
\* it reports none.
C20_LimitBoundsResultSize ==
    (stdout.cmd = "blast" /\ stdout.query.limit >= 0)
    => Len(stdout.matches) <= stdout.query.limit

\* the pattern has a group that is opened and never closed
UnclosedGroup(pattern) ==
    Cardinality({i \in 1..Len(pattern) : pattern[i] = "("})
        > Cardinality({i \in 1..Len(pattern) : pattern[i] = ")"})

\* C17: a blast with the regex flag and an invalid pattern, once past the
\* checks that the marker and the log exist, ends with the InvalidPattern
\* error and a non-zero exit status, prints no match and no context line, and
\* leaves the marker, the log and the shell configuration as they were.
C17_InvalidPatternFails ==
    [][(/\ stdout'.cmd = "blast"
        /\ stdout'.query.regex
        /\ UnclosedGroup(stdout'.query.search_term)
        /\ MONITOR_PID_FILE # NoFile
        /\ LOG_FILE.exists)
       => (/\ stdout'.report = "InvalidPattern"
           /\ stdout'.exit = 1
           /\ stdout'.matches = <<>>
           /\ stdout'.printed = <<>>
           /\ MONITOR_PID_FILE' = MONITOR_PID_FILE
           /\ LOG_FILE' = LOG_FILE
           /\ config_file' = config_file)]_vars

\* a blast with an invalid pattern has failed on a log that has records
C17_Witness ==
    /\ stdout.cmd = "blast"
    /\ stdout.report = "InvalidPattern"
    /\ stdout.exit = 1
    /\ stdout.query.regex
    /\ Len(Records) > 0

\* -------------------------------------------------- claims on the log
\* C15: each append of a command text r at time t adds exactly one record
\* to what a reader loads, at the end, with text r trimmed and timestamp t;
\* so n appends to an empty log load as those n records in order.
C15_AppendReadRoundTrip ==
    [][\A c \in CommandTexts, t \in Timestamps :
          log_command(c, t) =>
              LoadFrom(LOG_FILE'.lines, 1)
                  = Append(LoadFrom(LOG_FILE.lines, 1), [timestamp |-> t, command |-> Strip(c)])]_vars

\* s is a prefix of t
IsPrefix(s, t) == Len(s) <= Len(t) /\ SubSeq(t, 1, Len(s)) = s

\* C16: every step of start, stop, status, blast, of an append and of the
\* installation or removal of the hook leaves the log with its former content
\* as a prefix of the new content: no line is changed, removed or reordered
\* and the log file is not deleted.
C16_LogAppendOnly ==
    [][/\ IsPrefix(LOG_FILE.lines, LOG_FILE'.lines)
       /\ LOG_FILE.exists => LOG_FILE'.exists]_vars

\* a stop has ended a monitor and removed the hook, and the log still holds
\* the two lines written before
C16_Witness ==
    /\ StopReturned
    /\ stdout.report = "Stopped"
    /\ ~HookInstalled
    /\ Len(LOG_FILE.lines) >= 2

\* ------------------------------------------------- claims on the hooks
\* the lines of the kind k in the file f
CountLines(cf, f, k) == Cardinality({i \in 1..Len(cf[f].lines) : cf[f].lines[i] = k})

\* C18: for every content of the shell configuration files, installing the
\* hook twice gives the content that installing it once gives, with no hook
\* line added by the second installation, and removing it twice gives the
\* content that removing it once gives; a file that does not exist stays so.
C18_HooksIdempotent ==
    LET once == setup_terminal_hooks(config_file)
        twice == setup_terminal_hooks(once)
        removed == cleanup_hooks(config_file)
    IN  /\ twice = once
        /\ \A f \in ConfigFiles : \A k \in {"fn", "trap", "preexec"} :
               CountLines(twice, f, k) = CountLines(once, f, k)
        /\ cleanup_hooks(removed) = removed
        /\ \A f \in ConfigFiles : ~config_file[f].exists => (~once[f].exists /\ ~removed[f].exists)

\* an installation has found the hook in place and added nothing: the file
\* holds the hook once
C18_Witness ==
    /\ stdout.cmd = "setup_terminal_hooks"
    /\ stdout.report = "none"
    /\ CountLines(config_file, "bashrc", "fn") = 1
    /\ CountLines(config_file, "bashrc", "trap") = 1
    /\ setup_terminal_hooks(config_file) = config_file

\* ------------------------------------------------ claims on the start race
\* the process p writes its pid through a descriptor open on the marker
Writes(p) == proc[p].pc = "write" /\ proc[p].fd = "open" /\ proc'[p].pc = "hooks"

\* the processes that have written their pid to the marker and are running
Writers == {p \in Pids : proc[p].pc \in {"hooks", "idle"}}

\* C19: the check of the marker and the write of the marker are separate
\* steps, and whichever process writes last has its pid in the marker: each
\* write replaces what an earlier writer left, and when two or more running
\* processes have written, the marker records one of them only (or has just
\* been truncated by a further start).
C19_LastWriterWins ==
    [][/\ \A p \in Pids : Writes(p) => MONITOR_PID_FILE' = p
       /\ Cardinality(Writers') >= 2 => MONITOR_PID_FILE' \in Writers' \cup {EmptyContent}]_vars

\* two start --daemon invocations have both found no marker, forked and
\* exited 0, the detached processes of both are in the idle loop, and the
\* marker records the one that wrote last
C19_Witness ==
    \E g, h \in Monitors :
        /\ Root(g) # Root(h)
        /\ proc[g].cmd = "start_daemon" /\ proc[h].cmd = "start_daemon"
        /\ proc[Root(g)].pc = "exit0" /\ proc[Root(h)].pc = "exit0"
        /\ proc[proc[g].parent].parent = Root(g)
        /\ proc[proc[h].parent].parent = Root(h)
        /\ MONITOR_PID_FILE = h
====
